---- MODULE Spec2Model ----
(***************************************************************************)
(* A model of go-iomux: a multiplexer of tagged writers over unix domain   *)
(* sockets.                                                                *)
(*                                                                         *)
(* Spec        the context based Mux (Tag, Read, ReadUntil/ReadWhile, the  *)
(*             read workers, the completion queue recvchan), together with *)
(*             the kernel's socket queues, the writers and the             *)
(*             cancellations.                                              *)
(* GramSpec    Spec on the unixgram network alone.                         *)
(* FairSpec    Spec with the fairness the Go scheduler gives goroutines.   *)
(* RepairSpec  ReadUntil's accumulation followed by repairTruncatedReads   *)
(*             (the round-robin Mux of iomux.go) over drawn chunk streams. *)
(* LifeSpec    the life of the context based Mux: Tag again, the failures  *)
(*             of Tag, Close, the calls on a closed Mux, the reads that    *)
(*             fail and ReadWhile, around one call of Read or ReadUntil.   *)
(* DirSpec     Tag with and without WithCustomDir, and Close: the          *)
(*             directories of the sockets.                                 *)
(* PollSpec    Read's wait loop with its sleeps, and the read goroutines.  *)
(* OnceSpec    Tag called by several goroutines at once on a new Mux.      *)
(* RoundSpec   ReadUntil(done) of the round-robin Mux turn by turn: the    *)
(*             select on done, Read by recvidx, and the count of           *)
(*             deadlines.                                                  *)
(* GrowSpec    Tag of a further tag while reads are in flight: the growth  *)
(*             of mux.recvmutex.                                           *)
(* LinesSpec   scanLines of mux.go over drawn chunk streams.               *)
(*                                                                         *)
(* A payload is not a string of byte values but the identities of its      *)
(* bytes: byte k written on tag t is <<t, k>>, and a run of them is the    *)
(* interval <<t, lo, hi>>.                                                 *)
(***************************************************************************)
EXTENDS Integers, Sequences, FiniteSets, TLC

VARIABLES
    network,     \* mux.network
    senders,     \* mux.senders: tag -> number N of its socket send_N.sock
    recvconns,   \* mux.recvconns: per receive connection its RemoteAddr (0: none)
    recvmutex,   \* mux.recvmutex: per receive connection, locked or not
    mutexCap,    \* capacity of the array behind the slice mux.recvmutex
    recvchan,    \* mux.recvchan: the completions sent and not yet received
    recvstate,   \* mux.recvstate: <<ctx, conn>> -> eof
    workers,     \* per receive connection, the read goroutines in flight
    kq,          \* per receive connection, the kernel's receive queue
    written,     \* per tag, the number of bytes written to its handle
    cancelled,   \* per context, whether it is done
    call,        \* the caller: the operation in progress and its position
    result,      \* ReadUntil's local result
    ret,         \* what the last call returned
    ncalls,      \* the number of calls of Read and ReadUntil so far
    log,         \* history: the chunks Read returned, in order
    writeLog,    \* history: the writes, in the order issued
    wrAtCancel,  \* history: per context, written at the time it was cancelled
    dlAfter,     \* history: <<ctx, conn>> such that a read of conn hit its
                 \* deadline while ctx was done
    session,     \* a ReadUntil of the round-robin Mux: its locals and those
                 \* of repairTruncatedReads
    life         \* mux.closed, what Close released, the listener's backlog,
                 \* ReadWhile's locals and what Tag, Close and ReadWhile
                 \* returned last

muxvars ==
    <<network, senders, recvconns, recvmutex, mutexCap, recvchan, recvstate,
      workers, kq, written, cancelled, call, result, ret, ncalls, log,
      writeLog, wrAtCancel, dlAfter, life>>

vars == <<muxvars, session>>

\* all but life
corevars ==
    <<network, senders, recvconns, recvmutex, mutexCap, recvchan, recvstate,
      workers, kq, written, cancelled, call, result, ret, ncalls, log,
      writeLog, wrAtCancel, dlAfter, session>>

----------------------------------------------------------------------------
\* Bounds of the model

\* writes in all: while several connections exist, on a single stream or
\* packet connection, on the datagram socket
MaxWrites == 1
MaxDirectWrites == 2
MaxGramWrites == 3
\* calls of Read and ReadUntil
MaxCalls == 2
SmallWrite == 10
BigWrite == 300
MaxInFlight == 2
\* chunks returned by the Reads of one session of the round-robin Mux
MaxChunks == 5
\* read errors that are not deadlines, in all
MaxFaults == 1
\* writes in all, in LifeSpec
MaxLifeWrites == 1
\* calls of Read, ReadUntil and ReadWhile on the open Mux in all, in LifeSpec
MaxLifeCalls == 1
\* the sleeps of one wait loop, in PollSpec
MaxPolls == 9
\* the goroutines that call Tag at the same time, in OnceSpec
MaxTagCallers == 3
\* the writes during, and the Reads of, one ReadUntil in RoundSpec
MaxRoundWrites == 2
MaxRoundReads == 7

\* Constants of the program

StreamBufSize == 256
GramBufSize == 65536
ChanCap == 10
Newline == 10

Tags == {"a", "b"}
TagOrder == <<"a", "b", "c">>
\* a tag registered only where a third connection matters; nothing is
\* written on it
LateTags == {"c"}
NoTag == ""
Scopes == {1, 2}
Networks == {"unixgram", "unix", "unixpacket"}
NoAddr == 0
\* a datagram of either size fits the datagram buffer
WriteSizes == IF network = "unixgram" THEN {SmallWrite} ELSE {SmallWrite, BigWrite}

Min(x, y) == IF x < y THEN x ELSE y
Last(s) == s[Len(s)]
Conns == 1..Len(recvconns)

----------------------------------------------------------------------------
\* Payloads

\* append(d1, d2...) on payloads: adjacent runs of one tag's bytes join
AppendData(d1, d2) ==
    IF d1 = <<>> THEN d2
    ELSE IF d2 = <<>> THEN d1
    ELSE LET x == Last(d1)
             y == d2[1]
         IN IF x[1] = y[1] /\ x[3] + 1 = y[2]
            THEN SubSeq(d1, 1, Len(d1) - 1) \o <<<<x[1], x[2], y[3]>>>> \o Tail(d2)
            ELSE d1 \o d2

----------------------------------------------------------------------------
\* The kernel: the receive queue of a socket

\* a faulty kernel, to try the ordering properties on: the newest message
\* is delivered first
KernelWriteNewestFirst(q, msg) == <<msg>> \o q

\* write(2) on the handle of tag t: one message on the message oriented
\* networks, more bytes of the connection's stream on "unix"
KernelWrite(q, msg) ==
    IF network = "unix" /\ q # <<>>
    THEN <<[q[1] EXCEPT !.hi = msg.hi]>>
    ELSE Append(q, msg)

BufSize == IF network = "unixgram" THEN GramBufSize ELSE StreamBufSize

\* recvfrom(2) into a buffer of BufSize bytes: the bytes read
KernelReadChunk(q) ==
    [q[1] EXCEPT !.hi = Min(q[1].hi, q[1].lo + BufSize - 1)]

\* recvfrom(2): what stays queued. A stream keeps what did not fit, a
\* message that exceeds the buffer is truncated
KernelReadRest(q) ==
    IF network = "unix" /\ q[1].lo + BufSize - 1 < q[1].hi
    THEN <<[q[1] EXCEPT !.lo = q[1].lo + BufSize]>>
    ELSE Tail(q)

----------------------------------------------------------------------------------------------------------------------------------------
\* Tag

SenderNum == Cardinality(DOMAIN senders) + 1

\* the receive connection the kernel delivers the writes of tag t to
ConnOf(t) ==
    IF network = "unixgram" THEN 1
    ELSE CHOOSE c \in Conns : recvconns[c] = senders[t]

\* what Tag, Close or ReadWhile returned: the error, for Tag the number of
\* the send connection the handle is on, for ReadWhile whether the chunks of
\* the session came with it and whether waitFn had returned by then
Outcome(op, tag, err, conn) ==
    [op |-> op, tag |-> tag, err |-> err, conn |-> conn, td |-> FALSE,
     waited |-> FALSE]

NoReadWhile ==
    [active |-> FALSE, ctx |-> 0, n |-> 0, wait |-> "none", errIn |-> "nil",
     waitErr |-> "nil"]

\* mux.dir of the zero Mux, and no option
NoDir == ""

\* the directory os.MkdirTemp makes, the directory of WithCustomDir
TempDir == "temp"
CustomDirs == {"custom"}

\* the goroutines that call Tag at the same time on a new Mux
TagCallers == 1..MaxTagCallers

\* no Tag is under way: recvonce is new, its function ran runs times and
\* failed or not; per goroutine the place in Tag, the e that its call of
\* createReceiver returns, and what its Tag returned
NoTagCalls ==
    [once |-> "new", runs |-> 0, failed |-> FALSE,
     pc |-> [g \in TagCallers |-> "idle"],
     e |-> [g \in TagCallers |-> "nil"],
     out |-> [g \in TagCallers |-> "none"]]

\* the zero Mux: open, createReceiver not run, nothing released.
\* dir is mux.dir, recvdir the directory of recv.sock, senddir that of
\* send_N.sock per N, removed the directories Close removed
NewMux ==
    [closed |-> FALSE, listening |-> FALSE, pending |-> 0, leaked |-> {},
     released |-> {}, twice |-> {}, dirRemoved |-> 0, faults |-> 0,
     rw |-> NoReadWhile, last |-> Outcome("none", NoTag, "nil", 0),
     dir |-> NoDir, recvdir |-> NoDir, senddir |-> <<>>, removed |-> {},
     tags |-> NoTagCalls]

\* createReceiver has returned nil: the first time the directory and the
\* receive socket are made, later recvonce does nothing
Listening ==
    IF life.listening THEN life
    ELSE LET d == IF life.dir = NoDir THEN TempDir ELSE life.dir
         IN [life EXCEPT !.listening = TRUE, !.dir = d, !.recvdir = d]

\* the options of Tag applied to m: opt is NoDir or the directory of
\* WithCustomDir
WithOption(m, opt) == IF opt = NoDir THEN m ELSE [m EXCEPT !.dir = opt]

\* append(mux.recvmutex, sync.Mutex{}): a full array is reallocated and the
\* mutexes are copied; a goroutine that holds &mux.recvmutex[i] then unlocks
\* the old array's mutex
MutexRealloc == Len(recvmutex) = mutexCap

GrownCap == IF mutexCap = 0 THEN 1 ELSE 2 * mutexCap

Orphan(ws) == [k \in 1..Len(ws) |-> [ws[k] EXCEPT !.live = FALSE]]

\* startListener on unixgram, acceptFn on the other networks: one more
\* receive connection, whose peer is raddr
AddRecvConn(raddr) ==
    /\ recvconns' = Append(recvconns, raddr)
    /\ recvmutex' = Append(recvmutex, FALSE)
    /\ mutexCap' = IF MutexRealloc THEN GrownCap ELSE mutexCap
    /\ workers' = Append(IF MutexRealloc
                         THEN [c \in Conns |-> Orphan(workers[c])]
                         ELSE workers, <<>>)
    /\ kq' = Append(kq, <<>>)

\* the dial of socket send_N.sock and the accept of its connection can
\* both succeed: no connection waits in the backlog, the address is free
HandshakeReady ==
    /\ life.pending = 0
    /\ SenderNum \notin life.leaked

\* createSender of a new tag, its handshake done: the sender is registered
\* and, but on a unixgram Mux that has its connection, a receive connection
\* is added
NewSender(t) ==
    /\ SenderNum <= Len(TagOrder)
    /\ t = TagOrder[SenderNum]
    /\ senders' = (t :> SenderNum) @@ senders
    /\ IF network = "unixgram" /\ recvconns # <<>>
       THEN UNCHANGED <<recvconns, recvmutex, mutexCap, workers, kq>>
       ELSE AddRecvConn(IF network = "unixgram" THEN NoAddr ELSE SenderNum)
    /\ UNCHANGED <<session, network, recvchan, recvstate, written, cancelled, call,
                   result, ret, ncalls, log, writeLog, wrAtCancel, dlAfter>>

\* Tag of a new tag: createReceiver and startListener (the first Tag), then
\* createSender. Tags are opaque: they are registered in the order of TagOrder
TagWith(t, opt) ==
    /\ call.pc = "idle"
    /\ ~life.closed
    /\ ~life.rw.active
    /\ HandshakeReady
    /\ NewSender(t)
    /\ LET m == WithOption(Listening, opt)
       IN life' = [m EXCEPT !.senddir = (SenderNum :> m.dir) @@ @,
                            !.last = Outcome("Tag", t, "nil", SenderNum)]

\* Tag without an option
Tag(t) == TagWith(t, NoDir)

----------------------------------------------------------------------------
\* The writers and the cancellations

WriteBound ==
    IF network = "unixgram" THEN MaxGramWrites
    ELSE IF Len(recvconns) = 1 THEN MaxDirectWrites
    ELSE MaxWrites

\* the contexts are created in order, context s no sooner than call s
Created(s) == s <= ncalls + 1

Write(t, n) ==
    /\ t \in DOMAIN senders
    /\ Len(writeLog) < WriteBound
    /\ LET msg == [src |-> t,
                   from |-> IF network = "unixgram" THEN senders[t] ELSE NoAddr,
                   lo |-> written[t] + 1, hi |-> written[t] + n,
                   wid |-> Len(writeLog) + 1]
       IN /\ kq' = [kq EXCEPT ![ConnOf(t)] = KernelWrite(@, msg)]
          /\ writeLog' = Append(writeLog, [tag |-> t, lo |-> msg.lo, hi |-> msg.hi])
    /\ written' = [written EXCEPT ![t] = @ + n]
    /\ UNCHANGED <<session, life, network, senders, recvconns, recvmutex, mutexCap, recvchan,
                   recvstate, workers, cancelled, call, result, ret, ncalls,
                   log, wrAtCancel, dlAfter>>

Cancel(s) ==
    /\ Created(s)
    /\ s = life.rw.ctx => life.rw.wait = "returned"
    /\ ~cancelled[s]
    /\ cancelled' = [cancelled EXCEPT ![s] = TRUE]
    /\ wrAtCancel' = [wrAtCancel EXCEPT ![s] = written]
    /\ UNCHANGED <<session, life, network, senders, recvconns, recvmutex, mutexCap, recvchan,
                   recvstate, workers, kq, written, call, result, ret, ncalls,
                   log, writeLog, dlAfter>>

----------------------------------------------------------------------------
\* Mux.read

\* a faulty Done, to try the isolation of the contexts on: one done channel
\* shared by all the contexts
AnyCtxDone(s) == \E x \in Scopes : cancelled[x]

\* <-ctx.Done() is ready
CtxDone(s) == cancelled[s]

\* a faulty resolution, to try the attribution on: the first tag the range
\* over the map yields, whatever its address
ResolveAnySender(from, raddr) ==
    IF DOMAIN senders = {} THEN {NoTag} ELSE DOMAIN senders

\* the tags whose sender address matches the chunk's peer; the range over
\* the map mux.senders stops at the first match
ResolveTag(from, raddr) ==
    LET m == {t \in DOMAIN senders :
                 IF from # NoAddr THEN from = senders[t]
                 ELSE raddr # NoAddr /\ raddr = senders[t]}
    IN IF m = {} THEN {NoTag} ELSE m

NoRes == [kind |-> "none", tag |-> NoTag, src |-> NoTag, lo |-> 0, hi |-> 0, wid |-> 0]
EofRes == [NoRes EXCEPT !.kind = "eof"]

\* read returns (data, tag, nil)
DataRes(c, tag) ==
    LET m == KernelReadChunk(kq[c])
    IN [kind |-> "data", tag |-> tag, src |-> m.src, lo |-> m.lo, hi |-> m.hi,
        wid |-> m.wid]

\* conn.ReadFrom returns os.ErrDeadlineExceeded: nothing was queued
Expired(c) ==
    /\ kq[c] = <<>>
    /\ dlAfter' = dlAfter \cup {<<s, c>> : s \in {x \in Scopes : cancelled[x]}}

----------------------------------------------------------------------------
\* What Read returns, to its caller or to ReadUntil's loop

\* start: the number of chunks Read had returned when the call began;
\* taken: the completions the wait loop of this Read received and went on
\* sleepDuration: the wait loop's next sleep, in milliseconds; slept: the
\* sleeps of the wait loop so far
Idle == [op |-> "none", ctx |-> 0, pc |-> "idle", start |-> 0, taken |-> 0,
         sleepDuration |-> 0, slept |-> <<>>]

CallStart == IF call.pc = "idle" THEN Len(log) ELSE call.start

\* a ReadUntil that never joins a chunk to the previous entry
AccumulateApart(res, chunk) ==
    Append(res, [tag |-> chunk.tag, data |-> <<<<chunk.src, chunk.lo, chunk.hi>>>>])

\* ReadUntil: a chunk of the tag of the previous entry is appended to it
Accumulate(res, chunk) ==
    LET d == <<<<chunk.src, chunk.lo, chunk.hi>>>>
    IN IF res # <<>> /\ Last(res).tag = chunk.tag
       THEN [res EXCEPT ![Len(res)].data = AppendData(@, d)]
       ELSE Append(res, [tag |-> chunk.tag, data |-> d])

ReturnData(op, s, chunk) ==
    /\ log' = Append(log, chunk)
    /\ IF op = "ReadUntil"
       THEN /\ result' = Accumulate(result, chunk)
            /\ call' = [op |-> op, ctx |-> s, pc |-> "again", start |-> call.start,
                        taken |-> 0, sleepDuration |-> 0, slept |-> <<>>]
            /\ ret' = ret
       ELSE /\ call' = Idle
            /\ ret' = [kind |-> "data", ctx |-> s]
            /\ result' = result

ReturnEOF(op, s) ==
    /\ ret' = [kind |-> IF op = "ReadUntil" THEN "session" ELSE "eof", ctx |-> s]
    /\ call' = Idle
    /\ UNCHANGED <<log, result>>

\* a ReadUntil that returns what it accumulated along with the error
ReturnErrWithResult(op, s, e) ==
    /\ ret' = [kind |-> e, ctx |-> s]
    /\ call' = Idle
    /\ UNCHANGED <<log, result>>

ReturnErr(op, s, e) ==
    /\ ret' = [kind |-> e, ctx |-> s]
    /\ call' = Idle
    /\ result' = IF op = "ReadUntil" THEN <<>> ELSE result
    /\ log' = log

----------------------------------------------------------------------------
\* Read, ReadUntil

\* deadlineDuration and the first sleepDuration of Read, in milliseconds
deadlineDuration == 100
FirstSleep == 1

\* a TryLock that succeeds on a locked mutex
TryLockBlind(c) == TRUE

TryLock(c) == ~recvmutex[c]

\* the connections Read starts a read goroutine on
Armed(s, c) ==
    /\ ~(<<s, c>> \in DOMAIN recvstate /\ recvstate[<<s, c>>])
    /\ TryLock(c)
    /\ Len(workers[c]) < MaxInFlight

NewWorker(s) == [ctx |-> s, pc |-> "read", live |-> TRUE, res |-> NoRes]

\* an arming loop that makes the entry of a connection only when it arms it
EnterArmedOnly(op, s) ==
    IF recvconns = <<>>
    THEN /\ ReturnErr(op, s, "noconn")
         /\ UNCHANGED <<recvstate, recvmutex, workers>>
    ELSE IF Len(recvconns) = 1
    THEN /\ call' = [op |-> op, ctx |-> s, pc |-> "dread", start |-> CallStart,
                    taken |-> 0, sleepDuration |-> 0, slept |-> <<>>]
         /\ UNCHANGED <<recvstate, recvmutex, workers, ret, log>>
    ELSE /\ recvstate' = recvstate @@
                             [k \in {<<s, c>> : c \in {x \in Conns : Armed(s, x)}} |-> FALSE]
         /\ recvmutex' = [c \in Conns |-> recvmutex[c] \/ Armed(s, c)]
         /\ workers' = [c \in Conns |->
                           IF Armed(s, c) THEN Append(workers[c], NewWorker(s))
                           ELSE workers[c]]
         /\ call' = [op |-> op, ctx |-> s, pc |-> "wait", start |-> CallStart,
                    taken |-> 0, sleepDuration |-> FirstSleep, slept |-> <<>>]
         /\ UNCHANGED <<ret, log>>

\* Read(ctx) up to its first blocking point
Enter(op, s) ==
    IF recvconns = <<>>
    THEN /\ ReturnErr(op, s, "noconn")
         /\ UNCHANGED <<recvstate, recvmutex, workers>>
    ELSE IF Len(recvconns) = 1
    THEN /\ call' = [op |-> op, ctx |-> s, pc |-> "dread", start |-> CallStart,
                    taken |-> 0, sleepDuration |-> 0, slept |-> <<>>]
         /\ UNCHANGED <<recvstate, recvmutex, workers, ret, log>>
    ELSE /\ recvstate' = recvstate @@ [k \in {<<s, c>> : c \in Conns} |-> FALSE]
         /\ recvmutex' = [c \in Conns |-> recvmutex[c] \/ Armed(s, c)]
         /\ workers' = [c \in Conns |->
                           IF Armed(s, c) THEN Append(workers[c], NewWorker(s))
                           ELSE workers[c]]
         /\ call' = [op |-> op, ctx |-> s, pc |-> "wait", start |-> CallStart,
                    taken |-> 0, sleepDuration |-> FirstSleep, slept |-> <<>>]
         /\ UNCHANGED <<ret, log>>

\* a call of Read(ctx) or of ReadUntil(ctx), which calls Read(ctx)
ReadBegin(op, s) ==
    /\ call.pc = "idle"
    /\ ~life.closed
    /\ IF life.rw.active
       THEN op = "ReadUntil" /\ s = life.rw.ctx /\ ncalls = life.rw.n
       ELSE s # life.rw.ctx
    /\ ncalls < MaxCalls
    /\ Created(s)
    /\ ncalls' = ncalls + 1
    /\ IF recvconns = <<>> /\ op = "ReadUntil"
       THEN Enter(op, s)
       ELSE Enter(op, s) /\ result' = IF op = "ReadUntil" THEN <<>> ELSE result
    /\ UNCHANGED <<session, life, network, senders, recvconns, mutexCap, recvchan, kq,
                   written, cancelled, writeLog, wrAtCancel, dlAfter>>

\* ReadUntil's loop calls Read(ctx) again
ReadAgain ==
    /\ call.pc = "again"
    /\ Enter(call.op, call.ctx)
    /\ result' = result
    /\ UNCHANGED <<session, life, network, senders, recvconns, mutexCap, recvchan, kq,
                   written, cancelled, ncalls, writeLog, wrAtCancel, dlAfter>>

\* the single connection: Read runs read itself
DirectReadData ==
    /\ call.pc = "dread"
    /\ kq[1] # <<>>
    /\ \E tag \in ResolveTag(kq[1][1].from, recvconns[1]) :
          ReturnData(call.op, call.ctx, DataRes(1, tag))
    /\ kq' = [kq EXCEPT ![1] = KernelReadRest(@)]
    /\ UNCHANGED <<session, life, network, senders, recvconns, recvmutex, mutexCap, recvchan,
                   recvstate, workers, written, cancelled, ncalls, writeLog,
                   wrAtCancel, dlAfter>>

DirectExpire ==
    /\ call.pc = "dread"
    /\ Expired(1)
    /\ call' = [call EXCEPT !.pc = "dexpired"]
    /\ UNCHANGED <<session, life, network, senders, recvconns, recvmutex, mutexCap, recvchan,
                   recvstate, workers, kq, written, cancelled, result, ret,
                   ncalls, log, writeLog, wrAtCancel>>

\* a read that returns the deadline error while its context is live
DirectCheckCtxOnce ==
    /\ call.pc = "dexpired"
    /\ IF CtxDone(call.ctx)
       THEN ReturnEOF(call.op, call.ctx)
       ELSE ReturnErr(call.op, call.ctx, "deadline")
    /\ UNCHANGED <<session, life, network, senders, recvconns, recvmutex, mutexCap, recvchan,
                   recvstate, workers, kq, written, cancelled, ncalls,
                   writeLog, wrAtCancel, dlAfter>>

DirectCheckCtx ==
    /\ call.pc = "dexpired"
    /\ IF CtxDone(call.ctx)
       THEN ReturnEOF(call.op, call.ctx)
       ELSE /\ call' = [call EXCEPT !.pc = "dread"]
            /\ UNCHANGED <<result, ret, log>>
    /\ UNCHANGED <<session, life, network, senders, recvconns, recvmutex, mutexCap, recvchan,
                   recvstate, workers, kq, written, cancelled, ncalls,
                   writeLog, wrAtCancel, dlAfter>>

\* the wait loop: case td := <-mux.recvchan
ReadRecv ==
    /\ call.pc = "wait"
    /\ recvchan # <<>>
    /\ LET td == recvchan[1]
       IN IF td.res.kind = "eof"
          THEN /\ recvstate' = [recvstate EXCEPT ![<<call.ctx, td.conn>>] = TRUE]
               /\ call' = [call EXCEPT !.taken = @ + 1]
               /\ UNCHANGED <<result, ret, log>>
          ELSE IF td.res.kind = "err"
          THEN /\ ReturnErr(call.op, call.ctx, "readerr")
               /\ recvstate' = recvstate
          ELSE /\ ReturnData(call.op, call.ctx, td.res)
               /\ recvstate' = recvstate
    /\ recvchan' = Tail(recvchan)
    /\ UNCHANGED <<session, life, network, senders, recvconns, recvmutex, mutexCap, workers,
                   kq, written, cancelled, ncalls, writeLog, wrAtCancel,
                   dlAfter>>

\* the wait loop with a sleep that doubles without a limit
ReadPollUncapped ==
    /\ call.pc = "wait"
    /\ Len(call.slept) < MaxPolls
    /\ \/ recvchan = <<>> /\ ~CtxDone(call.ctx)
       \/ CtxDone(call.ctx) /\ \E c \in Conns : ~recvstate[<<call.ctx, c>>]
    /\ call' = [call EXCEPT
                   !.slept = Append(@, call.sleepDuration),
                   !.sleepDuration = @ + @]
    /\ UNCHANGED <<session, life, network, senders, recvconns, recvmutex, mutexCap,
                   recvchan, recvstate, workers, kq, written, cancelled, result,
                   ret, ncalls, log, writeLog, wrAtCancel, dlAfter>>

\* the wait loop: the default case, or case <-ctx.Done() with a connection
\* not at eof; then time.Sleep(sleepDuration), and sleepDuration doubles up
\* to deadlineDuration
ReadPoll ==
    /\ call.pc = "wait"
    /\ Len(call.slept) < MaxPolls
    /\ \/ recvchan = <<>> /\ ~CtxDone(call.ctx)
       \/ CtxDone(call.ctx) /\ \E c \in Conns : ~recvstate[<<call.ctx, c>>]
    /\ call' = [call EXCEPT
                   !.slept = Append(@, call.sleepDuration),
                   !.sleepDuration = IF @ + @ > deadlineDuration
                                     THEN deadlineDuration ELSE @ + @]
    /\ UNCHANGED <<session, life, network, senders, recvconns, recvmutex, mutexCap,
                   recvchan, recvstate, workers, kq, written, cancelled, result,
                   ret, ncalls, log, writeLog, wrAtCancel, dlAfter>>

\* a return of io.EOF that leaves the entries of the context in recvstate
ReadCtxDoneKeep ==
    /\ call.pc = "wait"
    /\ CtxDone(call.ctx)
    /\ \A c \in Conns : recvstate[<<call.ctx, c>>]
    /\ recvstate' = recvstate
    /\ ReturnEOF(call.op, call.ctx)
    /\ UNCHANGED <<session, life, network, senders, recvconns, recvmutex, mutexCap, recvchan,
                   workers, kq, written, cancelled, ncalls, writeLog,
                   wrAtCancel, dlAfter>>

\* the wait loop: case <-ctx.Done(), with every connection at eof
ReadCtxDone ==
    /\ call.pc = "wait"
    /\ CtxDone(call.ctx)
    /\ \A c \in Conns : recvstate[<<call.ctx, c>>]
    /\ recvstate' = [k \in DOMAIN recvstate \ {<<call.ctx, c>> : c \in Conns} |->
                        recvstate[k]]
    /\ ReturnEOF(call.op, call.ctx)
    /\ UNCHANGED <<session, life, network, senders, recvconns, recvmutex, mutexCap, recvchan,
                   workers, kq, written, cancelled, ncalls, writeLog,
                   wrAtCancel, dlAfter>>

----------------------------------------------------------------------------
\* The read goroutines Read starts

WorkerAt(c, k, pc) == k \in 1..Len(workers[c]) /\ workers[c][k].pc = pc

SetWorker(c, k, w) == workers' = [workers EXCEPT ![c][k] = w]

WorkerReadData(c, k) ==
    /\ WorkerAt(c, k, "read")
    /\ ~life.closed
    /\ kq[c] # <<>>
    /\ \E tag \in ResolveTag(kq[c][1].from, recvconns[c]) :
          SetWorker(c, k, [workers[c][k] EXCEPT !.pc = "send", !.res = DataRes(c, tag)])
    /\ kq' = [kq EXCEPT ![c] = KernelReadRest(@)]
    /\ UNCHANGED <<session, life, network, senders, recvconns, recvmutex, mutexCap, recvchan,
                   recvstate, written, cancelled, call, result, ret, ncalls,
                   log, writeLog, wrAtCancel, dlAfter>>

WorkerExpire(c, k) ==
    /\ WorkerAt(c, k, "read")
    /\ ~life.closed
    /\ Expired(c)
    /\ SetWorker(c, k, [workers[c][k] EXCEPT !.pc = "expired"])
    /\ UNCHANGED <<session, life, network, senders, recvconns, recvmutex, mutexCap, recvchan,
                   recvstate, kq, written, cancelled, call, result, ret,
                   ncalls, log, writeLog, wrAtCancel>>

WorkerCheckCtx(c, k) ==
    /\ WorkerAt(c, k, "expired")
    /\ SetWorker(c, k, IF CtxDone(workers[c][k].ctx)
                       THEN [workers[c][k] EXCEPT !.pc = "send", !.res = EofRes]
                       ELSE [workers[c][k] EXCEPT !.pc = "read"])
    /\ UNCHANGED <<session, life, network, senders, recvconns, recvmutex, mutexCap, recvchan,
                   recvstate, kq, written, cancelled, call, result, ret,
                   ncalls, log, writeLog, wrAtCancel, dlAfter>>

\* mux.recvchan <- &taggedData{...}
WorkerSend(c, k) ==
    /\ WorkerAt(c, k, "send")
    /\ Len(recvchan) < ChanCap
    /\ recvchan' = Append(recvchan, [conn |-> c, res |-> workers[c][k].res,
                                     wctx |-> workers[c][k].ctx])
    /\ SetWorker(c, k, [workers[c][k] EXCEPT !.pc = "unlock", !.res = NoRes])
    /\ UNCHANGED <<session, life, network, senders, recvconns, recvmutex, mutexCap, recvstate,
                   kq, written, cancelled, call, result, ret, ncalls, log,
                   writeLog, wrAtCancel, dlAfter>>

\* mutex.Unlock()
WorkerUnlock(c, k) ==
    /\ WorkerAt(c, k, "unlock")
    /\ recvmutex' = IF workers[c][k].live THEN [recvmutex EXCEPT ![c] = FALSE]
                    ELSE recvmutex
    /\ workers' = [workers EXCEPT ![c] =
                      SubSeq(@, 1, k - 1) \o SubSeq(@, k + 1, Len(@))]
    /\ UNCHANGED <<session, life, network, senders, recvconns, mutexCap, recvchan, recvstate,
                   kq, written, cancelled, call, result, ret, ncalls, log,
                   writeLog, wrAtCancel, dlAfter>>

----------------------------------------------------------------------------

NoSession == [pc |-> "none"]

Init ==
    /\ network \in Networks
    /\ senders = <<>>
    /\ recvconns = <<>>
    /\ recvmutex = <<>>
    /\ mutexCap = 0
    /\ recvchan = <<>>
    /\ recvstate = <<>>
    /\ workers = <<>>
    /\ kq = <<>>
    /\ written = [t \in Tags |-> 0]
    /\ cancelled = [s \in Scopes |-> FALSE]
    /\ call = Idle
    /\ result = <<>>
    /\ ret = [kind |-> "none", ctx |-> 0]
    /\ ncalls = 0
    /\ log = <<>>
    /\ writeLog = <<>>
    /\ wrAtCancel = [s \in Scopes |-> [t \in Tags |-> 0]]
    /\ dlAfter = {}
    /\ session = NoSession
    /\ life = NewMux

Next ==
    \/ \E t \in Tags : Tag(t)
    \/ \E t \in Tags, n \in WriteSizes : Write(t, n)
    \/ \E s \in Scopes : Cancel(s)
    \/ \E op \in {"Read", "ReadUntil"}, s \in Scopes : ReadBegin(op, s)
    \/ ReadAgain
    \/ DirectReadData
    \/ DirectExpire
    \/ DirectCheckCtx
    \/ ReadRecv
    \/ ReadCtxDone
    \/ \E c \in Conns, k \in 1..MaxInFlight : WorkerReadData(c, k)
    \/ \E c \in Conns, k \in 1..MaxInFlight : WorkerExpire(c, k)
    \/ \E c \in Conns, k \in 1..MaxInFlight : WorkerCheckCtx(c, k)
    \/ \E c \in Conns, k \in 1..MaxInFlight : WorkerSend(c, k)
    \/ \E c \in Conns, k \in 1..MaxInFlight : WorkerUnlock(c, k)

Spec == Init /\ [][Next]_vars

\* The Mux made by NewMuxUnixGram: its one receive socket is read by Read
\* itself, no read goroutine is ever started
GramInit == Init /\ network = "unixgram"

GramNext ==
    \/ \E t \in Tags : Tag(t)
    \/ \E t \in Tags, n \in WriteSizes : Write(t, n)
    \/ \E s \in Scopes : Cancel(s)
    \/ \E op \in {"Read", "ReadUntil"}, s \in Scopes : ReadBegin(op, s)
    \/ ReadAgain
    \/ DirectReadData
    \/ DirectExpire
    \/ DirectCheckCtx

GramSpec == GramInit /\ [][GramNext]_vars

----------------------------------------------------------------------------
\* The life of the Mux: Tag again, the failures of Tag, Close, the calls on
\* a closed Mux, the reads that fail, ReadWhile

\* mux.closers: the receive socket or listener, the accepted connections,
\* the send connections of the registered tags
Closers ==
    (IF life.listening THEN {<<"recv", 0>>} ELSE {})
    \cup (IF network = "unixgram" THEN {} ELSE {<<"conn", c>> : c \in Conns})
    \cup {<<"send", senders[t]>> : t \in DOMAIN senders}

\* every socket the Mux made and did not close outside of Close
Opened == Closers \cup {<<"send", n>> : n \in life.leaked}

\* a createSender that dials whether the tag is registered or not
TagAgainDial(t) ==
    /\ call.pc = "idle"
    /\ ~life.closed
    /\ ~life.rw.active
    /\ t \in DOMAIN senders
    /\ senders' = [senders EXCEPT ![t] = SenderNum]
    /\ life' = [life EXCEPT !.last = Outcome("Tag", t, "nil", SenderNum)]
    /\ UNCHANGED <<network, recvconns, recvmutex, mutexCap, recvchan, recvstate,
                   workers, kq, written, cancelled, call, result, ret, ncalls,
                   log, writeLog, wrAtCancel, dlAfter, session>>

\* Tag of a registered tag: createSender finds mux.senders[tag] and returns
\* a new handle on it
TagAgain(t) ==
    /\ call.pc = "idle"
    /\ ~life.closed
    /\ ~life.rw.active
    /\ t \in DOMAIN senders
    /\ life' = [life EXCEPT !.last = Outcome("Tag", t, "nil", senders[t])]
    /\ UNCHANGED corevars

\* Tag of a registered tag with the option WithCustomDir(opt)
TagAgainWith(t, opt) ==
    /\ call.pc = "idle"
    /\ ~life.closed
    /\ ~life.rw.active
    /\ t \in DOMAIN senders
    /\ life' = [WithOption(life, opt) EXCEPT
                   !.last = Outcome("Tag", t, "nil", senders[t])]
    /\ UNCHANGED corevars

\* how Tag of a new tag fails:
\*   "receiver" createReceiver fails (the first Tag only): Tag closes the Mux
\*   "dial"     DialUnix fails and, but on unixgram, no connection arrives
\*              at the listener before the deadline of AcceptUnix
\*   "late"     AcceptUnix hits its deadline, DialUnix connects after it: the
\*              connection waits in the listener's backlog, its socket
\*              send_N.sock stays bound, and conn is dropped
\*   "stale"    AcceptUnix takes the connection that waited in the backlog,
\*              DialUnix fails on the address in use
TagFailures ==
    (IF ~life.listening THEN {"receiver"} ELSE {})
    \cup (IF life.pending = 0 THEN {"dial"} ELSE {})
    \cup (IF network # "unixgram" /\ HandshakeReady THEN {"late"} ELSE {})
    \cup (IF life.pending > 0 THEN {"stale"} ELSE {})

TagFail(t, o) ==
    /\ call.pc = "idle"
    /\ ~life.closed
    /\ ~life.rw.active
    /\ SenderNum <= Len(TagOrder)
    /\ t = TagOrder[SenderNum]
    /\ o \in TagFailures
    /\ life' =
          IF o = "receiver"
          THEN [life EXCEPT !.closed = TRUE,
                            !.dirRemoved = @ + 1,
                            !.removed = @ \cup {life.dir},
                            !.last = Outcome("Tag", t, "receiver", 0)]
          ELSE IF o = "dial"
          THEN [Listening EXCEPT
                            !.last = Outcome("Tag", t, "handshake", 0)]
          ELSE IF o = "late"
          THEN [Listening EXCEPT
                            !.pending = 1,
                            !.leaked = @ \cup {SenderNum},
                            !.last = Outcome("Tag", t, "handshake", 0)]
          ELSE [life EXCEPT !.pending = 0,
                            !.last = Outcome("Tag", t, "handshake", 0)]
    /\ IF o = "dial" /\ network = "unixgram" /\ recvconns = <<>>
       THEN AddRecvConn(NoAddr)
       ELSE IF o = "stale"
       THEN AddRecvConn(SenderNum)
       ELSE UNCHANGED <<recvconns, recvmutex, mutexCap, workers, kq>>
    /\ UNCHANGED <<session, network, senders, recvchan, recvstate, written,
                   cancelled, call, result, ret, ncalls, log, writeLog,
                   wrAtCancel, dlAfter>>

\* a Close that releases whether the Mux is closed or not
CloseAgain ==
    /\ call.pc = "idle"
    /\ ~life.rw.active
    /\ life' = [life EXCEPT !.closed = TRUE,
                            !.released = @ \cup Closers,
                            !.twice = @ \cup (life.released \cap Closers),
                            !.dirRemoved = @ + 1,
                            !.removed = @ \cup {life.dir},
                            !.last = Outcome("Close", NoTag, "nil", 0)]
    /\ UNCHANGED corevars

\* Close: it does not wait for the read goroutines in flight
Close ==
    /\ call.pc = "idle"
    /\ ~life.rw.active
    /\ life' = IF life.closed
               THEN [life EXCEPT !.last = Outcome("Close", NoTag, "closed", 0)]
               ELSE [life EXCEPT !.closed = TRUE,
                                 !.released = @ \cup Closers,
                                 !.twice = @ \cup (life.released \cap Closers),
                                 !.dirRemoved = @ + 1,
                                 !.removed = @ \cup {life.dir},
                                 !.last = Outcome("Close", NoTag, "nil", 0)]
    /\ UNCHANGED corevars

\* Tag and ReadWhile on a closed Mux
ClosedCall(op, t) ==
    /\ call.pc = "idle"
    /\ life.closed
    /\ life' = [life EXCEPT !.last = Outcome(op, t, "closed", 0)]
    /\ UNCHANGED corevars

\* a Read that looks at the connections before it looks at mux.closed
ReadClosedAfterConns(op, s) ==
    /\ call.pc = "idle"
    /\ life.closed
    /\ Created(s)
    /\ s <= MaxLifeCalls
    /\ ReturnErr(op, s, IF recvconns = <<>> THEN "noconn" ELSE "closed")
    /\ UNCHANGED <<session, life, network, senders, recvconns, recvmutex, mutexCap,
                   recvchan, recvstate, workers, kq, written, cancelled, ncalls,
                   writeLog, wrAtCancel, dlAfter>>

\* Read and ReadUntil on a closed Mux
ReadClosed(op, s) ==
    /\ call.pc = "idle"
    /\ life.closed
    /\ Created(s)
    /\ s <= MaxLifeCalls
    /\ ReturnErr(op, s, "closed")
    /\ UNCHANGED <<session, life, network, senders, recvconns, recvmutex, mutexCap,
                   recvchan, recvstate, workers, kq, written, cancelled, ncalls,
                   writeLog, wrAtCancel, dlAfter>>

\* read returns (nil, zeroTag, err), err not a deadline
ErrRes == [NoRes EXCEPT !.kind = "err"]

\* the single connection: conn.ReadFrom fails, not on its deadline
DirectReadErr ==
    /\ call.pc = "dread"
    /\ life.faults < MaxFaults
    /\ life' = [life EXCEPT !.faults = @ + 1]
    /\ ReturnErr(call.op, call.ctx, "readerr")
    /\ UNCHANGED <<session, network, senders, recvconns, recvmutex, mutexCap,
                   recvchan, recvstate, workers, kq, written, cancelled, ncalls,
                   writeLog, wrAtCancel, dlAfter>>

\* a read goroutine: conn.ReadFrom fails, not on its deadline; it does on a
\* connection that Close closed
WorkerReadErr(c, k) ==
    /\ WorkerAt(c, k, "read")
    /\ life.closed \/ life.faults < MaxFaults
    /\ life' = IF life.closed THEN life ELSE [life EXCEPT !.faults = @ + 1]
    /\ SetWorker(c, k, [workers[c][k] EXCEPT !.pc = "send", !.res = ErrRes])
    /\ UNCHANGED <<session, network, senders, recvconns, recvmutex, mutexCap,
                   recvchan, recvstate, kq, written, cancelled, call, result,
                   ret, ncalls, log, writeLog, wrAtCancel, dlAfter>>

WaitErrs == {"nil", "waiterr"}

\* ReadWhile(waitFn) up to the start of its goroutine; waitFn will return e.
\* The context it makes is the next one no call has used
ReadWhileCall(e) ==
    /\ call.pc = "idle"
    /\ ~life.closed
    /\ life.rw.wait = "none"
    /\ ncalls < MaxLifeCalls
    /\ ~cancelled[ncalls + 1]
    /\ life' = [life EXCEPT !.rw = [active |-> TRUE, ctx |-> ncalls + 1,
                                    n |-> ncalls, wait |-> "running",
                                    errIn |-> e, waitErr |-> "nil"]]
    /\ UNCHANGED corevars

\* a goroutine that drops what waitFn returned
WaitFnReturnDropped ==
    /\ life.rw.wait = "running"
    /\ life' = [life EXCEPT !.rw.wait = "returned"]
    /\ UNCHANGED corevars

\* the goroutine of ReadWhile: waitErr = waitFn(); cancelFn() is Cancel
WaitFnReturn ==
    /\ life.rw.wait = "running"
    /\ life' = [life EXCEPT !.rw.wait = "returned", !.rw.waitErr = life.rw.errIn]
    /\ UNCHANGED corevars

\* ReadWhile calls ReadUntil(ctx)
ReadWhileRead ==
    /\ life.rw.active
    /\ ReadBegin("ReadUntil", life.rw.ctx)

\* ReadWhile returns, ReadUntil having returned
ReadWhileReturn ==
    /\ life.rw.active
    /\ ncalls > life.rw.n
    /\ call.pc = "idle"
    /\ life' = [life EXCEPT
                   !.rw.active = FALSE,
                   !.last = [op |-> "ReadWhile", tag |-> NoTag,
                             err |-> IF ret.kind = "session" THEN life.rw.waitErr
                                     ELSE ret.kind,
                             conn |-> 0,
                             td |-> ret.kind = "session",
                             waited |-> life.rw.wait = "returned"]]
    /\ UNCHANGED corevars

\* the writes of LifeSpec
LifeWrite(t, n) ==
    /\ Len(writeLog) < MaxLifeWrites
    /\ ~life.closed
    /\ Write(t, n)

\* the calls of Read and ReadUntil by the caller itself
LifeRead(op, s) ==
    /\ ~life.rw.active
    /\ ncalls < MaxLifeCalls
    /\ ReadBegin(op, s)

\* the cancellations of LifeSpec: of the contexts its calls can use
LifeCancel(s) ==
    /\ s <= MaxLifeCalls
    /\ Cancel(s)

LifeNext ==
    \/ \E t \in Tags : Tag(t)
    \/ \E t \in Tags : TagAgain(t)
    \/ \E t \in Tags, o \in {"receiver", "dial", "late", "stale"} : TagFail(t, o)
    \/ Close
    \/ \E op \in {"Tag", "ReadWhile"}, t \in Tags : ClosedCall(op, IF op = "Tag" THEN t ELSE NoTag)
    \/ \E op \in {"Read", "ReadUntil"}, s \in Scopes : ReadClosed(op, s)
    \/ \E t \in Tags, n \in {SmallWrite} : LifeWrite(t, n)
    \/ \E s \in Scopes : LifeCancel(s)
    \/ \E op \in {"Read", "ReadUntil"}, s \in Scopes : LifeRead(op, s)
    \/ \E e \in WaitErrs : ReadWhileCall(e)
    \/ WaitFnReturn
    \/ ReadWhileRead
    \/ ReadWhileReturn
    \/ ReadAgain
    \/ DirectReadData
    \/ DirectExpire
    \/ DirectCheckCtx
    \/ DirectReadErr
    \/ ReadRecv
    \/ ReadCtxDone
    \/ \E c \in Conns, k \in 1..MaxInFlight : WorkerReadData(c, k)
    \/ \E c \in Conns, k \in 1..MaxInFlight : WorkerExpire(c, k)
    \/ \E c \in Conns, k \in 1..MaxInFlight : WorkerCheckCtx(c, k)
    \/ \E c \in Conns, k \in 1..MaxInFlight : WorkerReadErr(c, k)
    \/ \E c \in Conns, k \in 1..MaxInFlight : WorkerSend(c, k)
    \/ \E c \in Conns, k \in 1..MaxInFlight : WorkerUnlock(c, k)

LifeSpec == Init /\ [][LifeNext]_vars

\* The Mux and its directories: Tag with and without WithCustomDir, Tag
\* again, the failures of Tag, Close, and the writes
DirNext ==
    \/ \E t \in Tags, opt \in {NoDir} \cup CustomDirs : TagWith(t, opt)
    \/ \E t \in Tags, opt \in {NoDir} \cup CustomDirs : TagAgainWith(t, opt)
    \/ \E t \in Tags, o \in {"receiver", "dial", "late", "stale"} : TagFail(t, o)
    \/ \E t \in Tags, n \in {SmallWrite} : LifeWrite(t, n)
    \/ Close

DirSpec == Init /\ [][DirNext]_vars

\* Tag called by several goroutines at once on a new Mux. Each goroutine
\* steps through Tag: the test of mux.closed, recvonce.Do, the function of
\* createReceiver if it is the one to run it, mux.Close() or createSender.

\* if mux.closed { return nil, MuxClosed }
TagEnter(g) ==
    /\ life.tags.pc[g] = "idle"
    /\ life' = IF life.closed
               THEN [life EXCEPT !.tags.pc[g] = "returned", !.tags.out[g] = "closed"]
               ELSE [life EXCEPT !.tags.pc[g] = "once"]
    /\ UNCHANGED corevars

\* mux.recvonce.Do(func): the first caller runs the function, a caller that
\* comes while it runs waits for its end, a later caller returns at once;
\* both return the e of their own call, which nothing assigned
OnceDo(g) ==
    /\ life.tags.pc[g] = "once"
    /\ life.tags.once # "running"
    /\ life' = IF life.tags.once = "new"
               THEN [life EXCEPT !.tags.once = "running", !.tags.runs = @ + 1,
                                 !.tags.pc[g] = "init"]
               ELSE [life EXCEPT !.tags.pc[g] = "after"]
    /\ UNCHANGED corevars

\* the function of createReceiver ends, with e nil or with the error of
\* MkdirTemp, ResolveUnixAddr or startListener
InitReturn(g, err) ==
    /\ life.tags.pc[g] = "init"
    /\ err \in {"nil", "receiver"}
    /\ life' = IF err = "nil"
               THEN [Listening EXCEPT !.tags.once = "done", !.tags.pc[g] = "after"]
               ELSE [life EXCEPT !.tags.once = "done", !.tags.failed = TRUE,
                                 !.tags.e[g] = err, !.tags.pc[g] = "after"]
    /\ UNCHANGED corevars

\* if err != nil { mux.Close(); return nil, err }
TagAfterInit(g) ==
    /\ life.tags.pc[g] = "after"
    /\ life' = IF life.tags.e[g] = "nil"
               THEN [life EXCEPT !.tags.pc[g] = "sender"]
               ELSE IF life.closed
               THEN [life EXCEPT !.tags.pc[g] = "returned",
                                 !.tags.out[g] = life.tags.e[g]]
               ELSE [life EXCEPT !.closed = TRUE,
                                 !.released = @ \cup Closers,
                                 !.twice = @ \cup (life.released \cap Closers),
                                 !.dirRemoved = @ + 1,
                                 !.removed = @ \cup {life.dir},
                                 !.tags.pc[g] = "returned",
                                 !.tags.out[g] = life.tags.e[g]]
    /\ UNCHANGED corevars

\* createSender, taken as one step. Without a listener mux.acceptFn is nil
\* and the goroutine that calls it panics. With one, the goroutine
\* registers the next tag of TagOrder, or gets the file of a tag that is
\* registered when none is left
TagCreateSender(g) ==
    /\ life.tags.pc[g] = "sender"
    /\ IF ~life.listening
       THEN /\ life' = [life EXCEPT !.tags.pc[g] = "returned",
                                    !.tags.out[g] = "panic"]
            /\ UNCHANGED corevars
       ELSE IF SenderNum > Len(TagOrder)
       THEN /\ life' = [life EXCEPT !.tags.pc[g] = "returned",
                                    !.tags.out[g] = "nil"]
            /\ UNCHANGED corevars
       ELSE /\ NewSender(TagOrder[SenderNum])
            /\ life' = [life EXCEPT !.senddir = (SenderNum :> life.dir) @@ @,
                                    !.tags.pc[g] = "returned",
                                    !.tags.out[g] = "nil"]

OnceNext ==
    \/ \E g \in TagCallers : TagEnter(g)
    \/ \E g \in TagCallers : OnceDo(g)
    \/ \E g \in TagCallers, err \in {"nil", "receiver"} : InitReturn(g, err)
    \/ \E g \in TagCallers : TagAfterInit(g)
    \/ \E g \in TagCallers : TagCreateSender(g)

OnceSpec == Init /\ [][OnceNext]_vars

\* A third tag registered while the read goroutines of a Read over two
\* connections are in flight: Read(ctx) under two contexts, of which the
\* first may be cancelled, the read goroutines, and Tag
GrowNext ==
    \/ \E t \in Tags \cup LateTags : Tag(t)
    \/ \E t \in Tags, n \in {SmallWrite} : Write(t, n)
    \/ Cancel(1)
    \/ \E s \in Scopes : ReadBegin("Read", s)
    \/ ReadRecv
    \/ ReadCtxDone
    \/ \E c \in Conns, k \in 1..MaxInFlight : WorkerReadData(c, k)
    \/ \E c \in Conns, k \in 1..MaxInFlight : WorkerExpire(c, k)
    \/ \E c \in Conns, k \in 1..MaxInFlight : WorkerCheckCtx(c, k)
    \/ \E c \in Conns, k \in 1..MaxInFlight : WorkerSend(c, k)
    \/ \E c \in Conns, k \in 1..MaxInFlight : WorkerUnlock(c, k)

GrowInit == Init /\ network = "unix"

GrowSpec == GrowInit /\ [][GrowNext]_vars

\* Read's wait loop with its sleeps; nothing is written, the read
\* goroutines run into their deadlines
PollNext ==
    \/ \E t \in Tags : Tag(t)
    \/ \E s \in Scopes : Cancel(s)
    \/ \E op \in {"Read", "ReadUntil"}, s \in Scopes : ReadBegin(op, s)
    \/ ReadRecv
    \/ ReadPoll
    \/ ReadCtxDone
    \/ \E c \in Conns, k \in 1..MaxInFlight : WorkerExpire(c, k)
    \/ \E c \in Conns, k \in 1..MaxInFlight : WorkerCheckCtx(c, k)
    \/ \E c \in Conns, k \in 1..MaxInFlight : WorkerSend(c, k)
    \/ \E c \in Conns, k \in 1..MaxInFlight : WorkerUnlock(c, k)

PollSpec == Init /\ [][PollNext]_vars

----------------------------------------------------------------------------
\* Properties of the context based Mux

\* byte k written on tag t was returned by a Read
Returned(t, k) ==
    \E i \in 1..Len(log) : log[i].src = t /\ log[i].lo <= k /\ k <= log[i].hi

\* the call in progress returns in this step
Returns == call.pc # "idle" /\ call'.pc = "idle"

ReturnsEOF == Returns /\ ret'.kind \in {"eof", "session"}

\* the chunks Read attributed to tag t, in the order returned
TagLog(t) == SelectSeq(log, LAMBDA ch : ch.tag = t)

\* C1: when ReadUntil returns its result, every byte written on a registered
\* tag before its context was cancelled has been returned (by the session or
\* by a Read before it): none is left unread or dropped.
C1_SessionHasAllBytesWrittenBeforeCancel ==
    ret.kind = "session" =>
        \A t \in DOMAIN senders :
            \A k \in 1..wrAtCancel[ret.ctx][t] : Returned(t, k)

\* C2: Read(ctx) returns end-of-stream only if on every receive connection a
\* read hit its deadline after ctx was cancelled.
C2_EOFOnlyAfterDeadlinesAfterCancel ==
    [][ReturnsEOF => \A c \in Conns : <<ret'.ctx, c>> \in dlAfter']_vars

\* C3: the eof flag of (context s, connection c) is set only by the
\* completion of a read of c that was armed under s.
C3_EofFlagSetOnlyByOwnScope ==
    [][\A s \in Scopes, c \in Conns :
          (/\ <<s, c>> \in DOMAIN recvstate'
           /\ recvstate'[<<s, c>>]
           /\ ~(<<s, c>> \in DOMAIN recvstate /\ recvstate[<<s, c>>]))
          => (/\ recvchan # <<>>
              /\ recvchan[1].conn = c
              /\ recvchan[1].wctx = s)]_vars

\* C4: Read(ctx) returns end-of-stream only if ctx itself was cancelled,
\* whatever other context was cancelled and read to its end before.
C4_EOFOnlyIfOwnScopeCancelled ==
    ret.kind \in {"eof", "session"} => cancelled[ret.ctx]

\* a Read under context 2 on several connections returned end-of-stream
\* after a call under context 1, which is cancelled as well
C4_Witness ==
    /\ ret = [kind |-> "eof", ctx |-> 2]
    /\ cancelled[1]
    /\ Len(recvconns) = 2
    /\ ncalls = 2

\* C6: for every tag, the payloads attributed to it by the successive Reads
\* are, joined in the order returned, a prefix of the bytes written on its
\* handle: bytes of that handle, from the first on, without a gap or a repeat.
C6_PerTagFIFOPrefix ==
    \A t \in DOMAIN senders :
        LET l == TagLog(t)
        IN \A i \in 1..Len(l) :
              /\ l[i].src = t
              /\ l[i].lo = IF i = 1 THEN 1 ELSE l[i - 1].hi + 1
              /\ l[i].hi <= written[t]

\* C7: on unixgram the chunks returned by the successive Reads are the
\* writes, in the order issued across the tags.
C7_DatagramExactOrder ==
    network = "unixgram" =>
        /\ Len(log) <= Len(writeLog)
        /\ \A i \in 1..Len(log) :
              /\ log[i].wid = i
              /\ log[i].tag = writeLog[i].tag
              /\ log[i].lo = writeLog[i].lo
              /\ log[i].hi = writeLog[i].hi

\* writes on a, then b, then a were returned as [(a, ..), (b, ..), (a, ..)]
C7_Witness ==
    /\ network = "unixgram"
    /\ Len(log) = 3
    /\ <<log[1].tag, log[2].tag, log[3].tag>> = <<"a", "b", "a">>

\* C8: every chunk Read returns carries the tag of the handle it was written
\* on, and distinct registered tags have distinct sender addresses.
C8_Attribution ==
    /\ \A i \in 1..Len(log) : log[i].tag = log[i].src
    /\ \A t1, t2 \in DOMAIN senders : senders[t1] = senders[t2] => t1 = t2

\* with two tags registered on unixgram, where the tag is resolved from the
\* address of each message, chunks written on a and on b were returned
C8_Witness ==
    /\ network = "unixgram"
    /\ Cardinality(DOMAIN senders) = 2
    /\ {log[i].src : i \in 1..Len(log)} = {"a", "b"}

\* the last chunk of the run of one tag that begins at chunks[i]
RECURSIVE RunEnd(_, _)
RunEnd(chunks, i) ==
    IF i < Len(chunks) /\ chunks[i + 1].tag = chunks[i].tag
    THEN RunEnd(chunks, i + 1)
    ELSE i

\* the payloads of chunks[i..j], joined in order
RECURSIVE RunData(_, _, _)
RunData(chunks, i, j) ==
    IF i > j THEN <<>>
    ELSE AppendData(<<<<chunks[i].src, chunks[i].lo, chunks[i].hi>>>>,
                    RunData(chunks, i + 1, j))

\* the run-length grouping of chunks[i..]: one entry per maximal run of
\* consecutive chunks of one tag
RECURSIVE RunLengthGroup(_, _)
RunLengthGroup(chunks, i) ==
    IF i > Len(chunks) THEN <<>>
    ELSE LET j == RunEnd(chunks, i)
         IN <<[tag |-> chunks[i].tag, data |-> RunData(chunks, i, j)]>>
            \o RunLengthGroup(chunks, j + 1)

\* C11: the sequence ReadUntil returns is the run-length grouping of the
\* chunks its Reads returned, in order: consecutive chunks of one tag are
\* one entry holding their bytes joined, and runs of one tag that a chunk of
\* another tag separates stay separate entries.
C11_SessionIsRunLengthGrouping ==
    [][(Returns /\ ret'.kind = "session")
          => result' = RunLengthGroup(log', call.start + 1)]_vars

\* a session over three datagrams returned two entries: two chunks of one
\* tag were joined and the chunk of the other tag stayed apart
C11_Witness ==
    /\ ret.kind = "session"
    /\ ncalls = 1
    /\ Len(log) = 3
    /\ Len(result) = 2

----------------------------------------------------------------------------
\* Properties of the life of the Mux

\* a call of Tag returned in this step
TagReturns(t) ==
    /\ life'.last # life.last
    /\ life'.last.op = "Tag"
    /\ life'.last.tag = t

SendConns(rs) == {r \in rs : r[1] = "send"}

\* C12: Tag is idempotent per tag. The Tag that registers t makes exactly
\* one send connection; every later Tag(t) on the open Mux makes no
\* connection, on the send or on the receive side, and returns a handle on
\* the connection t is mapped to; the mapping of a registered tag is never
\* replaced or removed.
C12_TagIdempotent ==
    [][\A t \in Tags :
          /\ t \in DOMAIN senders =>
                /\ t \in DOMAIN senders'
                /\ senders'[t] = senders[t]
                /\ (TagReturns(t) /\ ~life.closed) =>
                      /\ life'.last.err = "nil"
                      /\ life'.last.conn = senders[t]
                      /\ Opened' = Opened
                      /\ recvconns' = recvconns
          /\ (t \notin DOMAIN senders /\ t \in DOMAIN senders') =>
                /\ SendConns(Opened') \ SendConns(Opened) = {<<"send", senders'[t]>>}
                /\ life'.last = Outcome("Tag", t, "nil", senders'[t])]_vars

\* with a and b registered, Tag(a) was called again and returned a handle on
\* connection 1
C12_Witness ==
    /\ DOMAIN senders = {"a", "b"}
    /\ life.last = Outcome("Tag", "a", "nil", 1)

\* C13: once the Mux is closed it stays closed, and every later Tag, Read,
\* ReadUntil, ReadWhile and Close returns the closed error and changes
\* nothing else, also on a Mux without a tag: there the closed error is
\* returned, not the no-connections error.
C13_ClosedIsFinal ==
    [][life.closed =>
          /\ life'.closed
          /\ life'.last # life.last => life'.last.err = "closed"
          /\ ret' # ret => ret'.kind = "closed"
          /\ call' = call
          /\ senders' = senders
          /\ recvconns' = recvconns]_vars

\* on a closed Mux without a tag, Read and Tag returned the closed error
C13_Witness ==
    /\ life.closed
    /\ recvconns = <<>>
    /\ ret.kind = "closed"
    /\ life.last = Outcome("Tag", "a", "closed", 0)

C15_NoTagNoConnections ==
    [][(call.pc = "idle" /\ ncalls' = ncalls + 1 /\ DOMAIN senders = {})
          => (call'.pc = "idle" /\ ret'.kind = "noconn")]_vars

\* C16: when Tag of a new tag fails in its handshake, by the accept or by
\* the dial, the Mux is closed.
C16_HandshakeFailureCloses ==
    (life.last.op = "Tag" /\ life.last.err = "handshake") => life.closed

\* the errors of Read that are not end-of-stream
ReadErrs == {"noconn", "closed", "readerr"}

\* C17: when a Read of a session fails with an error that is not
\* end-of-stream, ReadUntil returns no chunk, whatever it had accumulated,
\* and that error; ReadWhile returns the same.
C17_SessionErrorDropsResult ==
    [][/\ (call.op = "ReadUntil" /\ Returns /\ ret'.kind # "session")
             => (ret'.kind \in ReadErrs /\ result' = <<>>)
       /\ (life.rw.active /\ ~life'.rw.active /\ ret.kind # "session")
             => /\ ~life'.last.td
                /\ life'.last.err = ret.kind
                /\ result = <<>>]_vars

\* ReadWhile returned the read error of a session that had read a chunk
C17_Witness ==
    /\ life.last.op = "ReadWhile"
    /\ life.last.err = "readerr"
    /\ Len(log) = 1
    /\ result = <<>>

\* C18: ReadUntil and ReadWhile never return the deadline error: a deadline
\* that expires during a session is retried, or is the end of the session
\* when the context is done.
C18_NoDeadlineError ==
    /\ [](ret.kind # "deadline" /\ life.last.err # "deadline")
    /\ [][call.pc = "dexpired" =>
             \/ call'.pc \in {"dexpired", "dread"}
             \/ (Returns /\ ret'.kind \in {"eof", "session"})]_vars

\* ReadWhile returned a session over one chunk that ended on a deadline
C18_Witness ==
    /\ life.last.op = "ReadWhile"
    /\ life.last.td
    /\ Len(result) = 1
    /\ dlAfter # {}

\* C19: when the session ends without a read error, ReadWhile returns its
\* chunks together with the error waitFn returned, nil included.
C19_ReadWhileReturnsWaitErr ==
    [][(life.rw.active /\ ~life'.rw.active /\ ret.kind = "session")
          => /\ life'.last.td
             /\ life'.last.err = life.rw.errIn]_vars

\* ReadWhile returned one chunk and the error of waitFn
C19_Witness ==
    /\ life.last.op = "ReadWhile"
    /\ life.last.td
    /\ life.last.err = "waiterr"
    /\ Len(result) = 1

\* C20: ReadWhile does not return before waitFn has returned.
C20_ReadWhileWaitsForWaitFn ==
    life.last.op = "ReadWhile" => life.last.waited

\* the reads in flight on connection c: the read goroutines inside Mux.read
\* and, on the single connection, the caller inside Mux.read
WorkerReads(c) ==
    {k \in 1..Len(workers[c]) : workers[c][k].pc \in {"read", "expired"}}

DirectReads(c) ==
    IF c = 1 /\ call.pc \in {"dread", "dexpired"} THEN 1 ELSE 0

\* C21: at every instant at most one read is in flight on any receive
\* connection, on the single connection path and on the path of the read
\* goroutines, whatever the calls and their contexts.
C21_OneReadPerConnection ==
    \A c \in Conns : Cardinality(WorkerReads(c)) + DirectReads(c) <= 1

\* the second call, under another context, waits while the read armed by
\* the first call is still in flight on a connection
C21_Witness ==
    /\ call.pc = "wait"
    /\ call.ctx = 2
    /\ \E c \in Conns : \E k \in WorkerReads(c) : workers[c][k].ctx = 1

\* C26: a read goroutine whose read hit its deadline while its context is
\* not done gives the connection up (it reads again only when a later Read
\* arms it), and a read goroutine reports the end of its context only from
\* a deadline hit after the context is done: no connection stays in a read
\* for more than one deadline period.
C26_DeadlineReleasesConnection ==
    [][\A c \in Conns : \A k \in 1..Len(workers[c]) :
          Len(workers'[c]) = Len(workers[c]) =>
             /\ (workers[c][k].pc = "expired" /\ ~CtxDone(workers[c][k].ctx))
                   => workers'[c][k].pc # "read"
             /\ (/\ workers[c][k].pc # "send"
                 /\ workers'[c][k].pc = "send"
                 /\ workers'[c][k].res = EofRes)
                   => (workers[c][k].pc = "expired" /\ CtxDone(workers[c][k].ctx))
      ]_vars

\* a read goroutine reports the end of its context only from a deadline hit
\* after the context is done
EofOnlyAfterCancel ==
    [][\A c \in Conns : \A k \in 1..Len(workers[c]) :
          (/\ Len(workers'[c]) = Len(workers[c])
           /\ workers[c][k].pc # "send"
           /\ workers'[c][k].pc = "send"
           /\ workers'[c][k].res = EofRes)
          => (workers[c][k].pc = "expired" /\ CtxDone(workers[c][k].ctx))
      ]_vars

\* C27: a Read over several connections takes exactly one completion from
\* recvchan before it returns.
C27_OneCompletionPerRead ==
    [][(call.pc = "wait" /\ call'.pc # "wait")
          => call.taken + (Len(recvchan) - Len(recvchan')) = 1]_vars

InFlight(ws) == {k \in 1..Len(ws) : ws[k].pc \in {"read", "expired", "send"}}

\* C32: when a Read over several connections returns io.EOF, no read
\* goroutine is in flight on any connection and recvchan is empty: no data
\* completion is left behind the end, whatever Reads came before.
C32_EofLeavesNothingInFlight ==
    [][(call.pc = "wait" /\ call'.pc = "idle" /\ ret'.kind \in {"eof", "session"})
          => /\ recvchan' = <<>>
             /\ \A c \in 1..Len(workers') : InFlight(workers'[c]) = {}
      ]_vars

\* C33: a Tag of a new tag while a read goroutine is in flight on a
\* connection leaves the lock of that connection with its goroutine: a
\* connection is locked only while a goroutine that will unlock it runs,
\* so that it is free for a later Read once the goroutine has ended.
C33_LockedOnlyByLiveWorker ==
    \A c \in Conns :
        recvmutex[c] => \E k \in 1..Len(workers[c]) : workers[c][k].live

\* C35: while a Read over several connections waits, recvstate has the
\* entry of its context for every receive connection, and every completion
\* queued or to come is of a receive connection: the wait loop finds the
\* entry whenever it looks one up, whatever Tags and Reads came before.
C35_StateEntryExists ==
    call.pc = "wait" =>
        /\ \A c \in Conns : <<call.ctx, c>> \in DOMAIN recvstate
        /\ \A i \in 1..Len(recvchan) : recvchan[i].conn \in Conns
        /\ Len(workers) = Len(recvconns)

\* a Read over three connections, the third registered after an earlier
\* Read, is about to receive the io.EOF of a read armed under another context
C35_Witness ==
    /\ call.pc = "wait"
    /\ Len(recvconns) = 3
    /\ ncalls = 2
    /\ recvchan # <<>>
    /\ recvchan[1].res.kind = "eof"
    /\ recvchan[1].wctx # call.ctx

\* C36: on a stream network, after any Tags, failed ones included, there
\* are as many receive connections as registered tags and every receive
\* connection is the peer of the send connection of exactly one tag; on
\* unixgram there is one receive connection once createReceiver has run.
C36_ConnectionsPairedWithTags ==
    IF network = "unixgram"
    THEN life.listening => Len(recvconns) = 1
    ELSE /\ Len(recvconns) = Cardinality(DOMAIN senders)
         /\ \A c \in Conns :
               Cardinality({t \in DOMAIN senders : senders[t] = recvconns[c]}) = 1

\* C37: every socket the Mux opened is in mux.closers: on the closed Mux
\* none is left open, the connection of a Tag whose handshake failed
\* included.
C37_NothingOpenAfterClose ==
    life.closed => Opened \subseteq life.released

\* the n-th sleep of a wait loop, counted from 0, in milliseconds
RECURSIVE Pow2(_)
Pow2(n) == IF n = 0 THEN 1 ELSE 2 * Pow2(n - 1)

Backoff(n) == IF n >= 7 THEN 100 ELSE Pow2(n)

\* C28: in one Read the sleeps of the wait loop are 1, 2, 4, 8, 16, 32, 64,
\* 100, 100, .. milliseconds, never 0 and never more than 100, and the loop
\* does not sleep when the context is done and every connection is at eof.
C28_BackoffSchedule ==
    call.pc = "wait" =>
        /\ \A i \in 1..Len(call.slept) : call.slept[i] = Backoff(i - 1)
        /\ call.sleepDuration = Backoff(Len(call.slept))
        /\ call.sleepDuration \in 1..100
        /\ (CtxDone(call.ctx) /\ \A c \in Conns : recvstate[<<call.ctx, c>>])
              => ~ENABLED ReadPoll

\* a wait loop that slept nine times, the last two for 100 ms
C28_Witness ==
    /\ call.pc = "wait"
    /\ Len(call.slept) = 9
    /\ call.slept[8] = 100
    /\ call.slept[9] = 100

\* the function of createReceiver runs at most once, and has run when a
\* goroutine is past recvonce.Do
OnceRunsOnce ==
    /\ life.tags.runs <= 1
    /\ \A g \in TagCallers :
          life.tags.pc[g] \in {"init", "after", "sender"} => life.tags.runs = 1

\* C29: whatever the number of goroutines that call Tag on a new Mux and
\* however they interleave, the function of createReceiver runs once; when
\* it fails it is not run again, the Mux is closed, and every Tag returns
\* an error: none goes on to create a sender.
C29_ReceiverInitOnce ==
    /\ OnceRunsOnce
    /\ life.tags.failed =>
          \A g \in TagCallers :
             /\ life.tags.pc[g] # "sender"
             /\ life.tags.pc[g] = "returned" =>
                   (life.closed /\ life.tags.out[g] \in {"closed", "receiver"})

\* the directories that hold a socket of the Mux
SocketDirs ==
    (IF life.recvdir = NoDir THEN {} ELSE {life.recvdir})
    \cup {life.senddir[n] : n \in DOMAIN life.senddir}

\* C22: the receive socket and the send socket of every tag are in one
\* directory, the send sockets are numbered 1, 2, .. in it, and that
\* directory is the one Close removes, whatever the Tags and their options.
C22_OneDirectory ==
    /\ Cardinality(SocketDirs) <= 1
    /\ {senders[t] : t \in DOMAIN senders} = 1..Cardinality(DOMAIN senders)
    /\ (life.closed /\ SocketDirs # {}) => life.removed = SocketDirs

----------------------------------------------------------------------------
\* The round-robin Mux: ReadUntil(done) and repairTruncatedReads. The chunk
\* each Read of a session returns is drawn; the payload of the n-th chunk is
\* one byte that identifies it, and a line feed if the chunk ends a line.

SessionTags == {"a", "b", "c"}

\* len(mux.senders)
SessionSenders == Cardinality(SessionTags)

ChunkData(n, nl) == IF nl THEN <<Newline + n, Newline>> ELSE <<Newline + n>>

\* ReadUntil: a chunk with the tag of the previous entry is appended to it
Coalesce(res, td) ==
    IF res # <<>> /\ Last(res).Tag = td.Tag
    THEN [res EXCEPT ![Len(res)].Data = @ \o td.Data]
    ELSE Append(res, td)

\* the first loop of repairTruncatedReads, from index i (counted from 0) down
RECURSIVE ScanLastIndex(_, _, _)
ScanLastIndex(taggedData, i, m) ==
    IF i < 0 THEN m
    ELSE LET tag == taggedData[i + 1].Tag
             m2 == IF tag \in DOMAIN m THEN m ELSE (tag :> i) @@ m
         IN IF Cardinality(DOMAIN m2) = SessionSenders THEN m2
            ELSE ScanLastIndex(taggedData, i - 1, m2)

\* tagLastIndex[tag]: a Go map yields 0 for a missing key
LastIndex(m, tag) == IF tag \in DOMAIN m THEN m[tag] ELSE 0

\* append(bufferedData[:i], bufferedData[i+1:]...) on the array arr that
\* holds a slice of length n: the elements after i (counted from 0) move down
\* in place, the last place keeps its element
DeleteInPlace(arr, n, i) ==
    [j \in 1..Len(arr) |-> IF j >= i + 1 /\ j < n THEN arr[j + 1] ELSE arr[j]]

\* the loop over bufferedData that collects the buffered data of tag: the
\* range walks the first n0 places of the array while the slice shrinks to
\* n; bufferedData[i+1:] panics once i+1 exceeds n
RECURSIVE CollectLoop(_, _, _, _, _, _, _)
CollectLoop(arr, n, n0, i, tag, data, tdData) ==
    IF i >= n0 THEN [panic |-> FALSE, buffered |-> SubSeq(arr, 1, n), Data |-> tdData]
    ELSE IF arr[i + 1].Tag # tag
    THEN CollectLoop(arr, n, n0, i + 1, tag, data, tdData)
    ELSE IF i + 1 > n
    THEN [panic |-> TRUE, buffered |-> SubSeq(arr, 1, n),
          Data |-> arr[i + 1].Data \o data]
    ELSE CollectLoop(DeleteInPlace(arr, n, i), n - 1, n0, i + 1, tag, data,
                     arr[i + 1].Data \o data)

\* reads: history, the chunks the Reads of the session returned
NewSession ==
    [pc |-> "read", reads |-> <<>>, result |-> <<>>,
     tagLastIndex |-> <<>>, i |-> 0, bufferedData |-> <<>>, repaired |-> <<>>]

\* ReadUntil's loop: Read returns data of tag, ending a line or not
SessionRead(tag, nl) ==
    /\ session.pc = "read"
    /\ Len(session.reads) < MaxChunks
    /\ LET td == [Tag |-> tag, Data |-> ChunkData(Len(session.reads) + 1, nl)]
       IN session' = [session EXCEPT
                         !.reads = Append(@, td),
                         !.result = Coalesce(@, td)]
    /\ UNCHANGED muxvars

\* SessionEnd with repairTruncatedReads on every network
SessionEndRepairAll ==
    /\ session.pc = "read"
    /\ session' = [session EXCEPT
                      !.pc = "repair",
                      !.tagLastIndex = ScanLastIndex(session.result,
                                                     Len(session.result) - 1, <<>>)]
    /\ UNCHANGED muxvars

\* ReadUntil's loop ends: done was received and every connection stayed
\* silent; repairTruncatedReads begins unless on unixgram
SessionEnd ==
    /\ session.pc = "read"
    /\ session' =
          IF network = "unixgram"
          THEN [session EXCEPT !.pc = "done", !.repaired = session.result]
          ELSE [session EXCEPT
                   !.pc = "repair",
                   !.tagLastIndex = ScanLastIndex(session.result,
                                                  Len(session.result) - 1, <<>>)]
    /\ UNCHANGED muxvars

\* a turn that flushes a tag at its last chunk only
RepairStepLastOnly ==
    /\ session.pc = "repair"
    /\ session.i < Len(session.result)
    /\ LET i == session.i
           td == session.result[i + 1]
           tag == td.Tag
           data == td.Data
           bufferedData == session.bufferedData
           currentTag == IF Len(bufferedData) > 0 THEN bufferedData[1].Tag ELSE tag
           lastByteNl == data[Len(data)] = Newline
           r == CollectLoop(bufferedData, Len(bufferedData), Len(bufferedData),
                            0, tag, data, data)
       IN IF LastIndex(session.tagLastIndex, tag) = i
          THEN IF r.panic
               THEN session' = [session EXCEPT !.pc = "panic"]
               ELSE session' = [session EXCEPT
                                   !.i = i + 1,
                                   !.bufferedData = r.buffered,
                                   !.repaired = Append(@, [Tag |-> tag, Data |-> r.Data])]
          ELSE session' = [session EXCEPT
                              !.i = i + 1,
                              !.bufferedData = Append(bufferedData, td)]
    /\ UNCHANGED muxvars

\* one turn of the second loop of repairTruncatedReads
RepairStep ==
    /\ session.pc = "repair"
    /\ session.i < Len(session.result)
    /\ LET i == session.i
           td == session.result[i + 1]
           tag == td.Tag
           data == td.Data
           bufferedData == session.bufferedData
           currentTag == IF Len(bufferedData) > 0 THEN bufferedData[1].Tag ELSE tag
           lastByteNl == data[Len(data)] = Newline
           r == CollectLoop(bufferedData, Len(bufferedData), Len(bufferedData),
                            0, tag, data, data)
       IN IF (lastByteNl /\ currentTag = tag) \/ LastIndex(session.tagLastIndex, tag) = i
          THEN IF r.panic
               THEN session' = [session EXCEPT !.pc = "panic"]
               ELSE session' = [session EXCEPT
                                   !.i = i + 1,
                                   !.bufferedData = r.buffered,
                                   !.repaired = Append(@, [Tag |-> tag, Data |-> r.Data])]
          ELSE session' = [session EXCEPT
                              !.i = i + 1,
                              !.bufferedData = Append(bufferedData, td)]
    /\ UNCHANGED muxvars

\* repairTruncatedReads returns result
RepairReturn ==
    /\ session.pc = "repair"
    /\ session.i = Len(session.result)
    /\ session' = [session EXCEPT !.pc = "done"]
    /\ UNCHANGED muxvars

RepairInit ==
    /\ network \in {"unix", "unixgram"}
    /\ senders = <<>>
    /\ recvconns = <<>>
    /\ recvmutex = <<>>
    /\ mutexCap = 0
    /\ recvchan = <<>>
    /\ recvstate = <<>>
    /\ workers = <<>>
    /\ kq = <<>>
    /\ written = [t \in Tags |-> 0]
    /\ cancelled = [s \in Scopes |-> FALSE]
    /\ call = Idle
    /\ result = <<>>
    /\ ret = [kind |-> "none", ctx |-> 0]
    /\ ncalls = 0
    /\ log = <<>>
    /\ writeLog = <<>>
    /\ wrAtCancel = [s \in Scopes |-> [t \in Tags |-> 0]]
    /\ dlAfter = {}
    /\ session = NewSession
    /\ life = NewMux

RepairNext ==
    \/ \E tag \in SessionTags, nl \in BOOLEAN : SessionRead(tag, nl)
    \/ SessionEnd
    \/ RepairStep
    \/ RepairReturn

RepairSpec == RepairInit /\ [][RepairNext]_vars

----------------------------------------------------------------------------
\* scanLines of mux.go, behind ReadLinesUntil and ReadLinesWhile: ReadUntil
\* returns the chunks as they were read, and scanLines joins them to lines
\* per tag.

\* the first loop of scanLines, from index i (counted from 0) down: it ends
\* at two tags
RECURSIVE LinesLastIndex(_, _, _)
LinesLastIndex(read, i, m) ==
    IF i < 0 THEN m
    ELSE LET tag == read[i + 1].Tag
             m2 == IF tag \in DOMAIN m THEN m ELSE (tag :> i) @@ m
         IN IF Cardinality(DOMAIN m2) = 2 THEN m2
            ELSE LinesLastIndex(read, i - 1, m2)

\* reads: the chunks the Reads returned, as they were; read: the slice
\* ReadUntil returned; lineBuffer: per tag, nil being empty
NewLines ==
    [pc |-> "read", reads |-> <<>>, read |-> <<>>, tagLastIndex |-> <<>>,
     i |-> 0, lineBuffer |-> [t \in SessionTags |-> <<>>], lines |-> <<>>]

\* ReadUntil's loop: Read returns data of tag, ending a line or not, and it
\* is appended to result
LinesRead(tag, nl) ==
    /\ session.pc = "read"
    /\ Len(session.reads) < MaxChunks
    /\ session' = [session EXCEPT
                      !.reads = Append(@, [Tag |-> tag,
                                           Data |-> ChunkData(Len(session.reads) + 1, nl)])]
    /\ UNCHANGED muxvars

\* ReadUntil returns result; scanLines fills tagLastIndex
LinesReturn ==
    /\ session.pc = "read"
    /\ session' = [session EXCEPT
                      !.pc = "scan",
                      !.read = session.reads,
                      !.tagLastIndex = LinesLastIndex(session.reads,
                                                      Len(session.reads) - 1, <<>>)]
    /\ UNCHANGED muxvars

\* one turn of the second loop of scanLines
LinesStep ==
    /\ session.pc = "scan"
    /\ session.i < Len(session.read)
    /\ LET i == session.i
           tag == session.read[i + 1].Tag
           data == session.read[i + 1].Data
           joined == session.lineBuffer[tag] \o data
       IN IF LastIndex(session.tagLastIndex, tag) = i
          THEN session' = [session EXCEPT
                              !.i = i + 1,
                              !.lines = Append(@, [Tag |-> tag, Data |-> joined])]
          ELSE IF data[Len(data)] # Newline
          THEN session' = [session EXCEPT
                              !.i = i + 1,
                              !.lineBuffer[tag] = joined]
          ELSE session' = [session EXCEPT
                              !.i = i + 1,
                              !.lines = Append(@, [Tag |-> tag, Data |-> joined]),
                              !.lineBuffer[tag] = <<>>]
    /\ UNCHANGED muxvars

\* scanLines returns lines
LinesDone ==
    /\ session.pc = "scan"
    /\ session.i = Len(session.read)
    /\ session' = [session EXCEPT !.pc = "done"]
    /\ UNCHANGED muxvars

LinesInit ==
    /\ network \in {"unix", "unixgram"}
    /\ senders = <<>>
    /\ recvconns = <<>>
    /\ recvmutex = <<>>
    /\ mutexCap = 0
    /\ recvchan = <<>>
    /\ recvstate = <<>>
    /\ workers = <<>>
    /\ kq = <<>>
    /\ written = [t \in Tags |-> 0]
    /\ cancelled = [s \in Scopes |-> FALSE]
    /\ call = Idle
    /\ result = <<>>
    /\ ret = [kind |-> "none", ctx |-> 0]
    /\ ncalls = 0
    /\ log = <<>>
    /\ writeLog = <<>>
    /\ wrAtCancel = [s \in Scopes |-> [t \in Tags |-> 0]]
    /\ dlAfter = {}
    /\ session = NewLines
    /\ life = NewMux

LinesNext ==
    \/ \E tag \in SessionTags, nl \in BOOLEAN : LinesRead(tag, nl)
    \/ LinesReturn
    \/ LinesStep
    \/ LinesDone

LinesSpec == LinesInit /\ [][LinesNext]_vars

----------------------------------------------------------------------------
\* ReadUntil(done) of the round-robin Mux, turn by turn: the select on done,
\* then Read on the connection of recvidx. A stream Mux has a connection per
\* tag, a unixgram Mux one connection for all.

SessionTagOrder == <<"a", "b", "c">>

\* conns: len(mux.recvconns); queue: what waits to be read per connection;
\* done: the channel ("open", "sending" while the goroutine of ReadWhile
\* stands at done <- true, "sent"); nw: the writes so far; hist: the Reads
\* of the session, each with its connection, its end and callerDone
NewRound(n) ==
    [pc |-> "select", reads |-> <<>>, result |-> <<>>,
     tagLastIndex |-> <<>>, i |-> 0, bufferedData |-> <<>>, repaired |-> <<>>,
     conns |-> n, recvidx |-> 0, callerDone |-> FALSE, lastRead |-> 0,
     done |-> "open", queue |-> [c \in 1..n |-> <<>>], nw |-> 0, hist |-> <<>>]

RoundInit ==
    /\ network \in {"unix", "unixgram"}
    /\ senders = <<>>
    /\ recvconns = <<>>
    /\ recvmutex = <<>>
    /\ mutexCap = 0
    /\ recvchan = <<>>
    /\ recvstate = <<>>
    /\ workers = <<>>
    /\ kq = <<>>
    /\ written = [t \in Tags |-> 0]
    /\ cancelled = [s \in Scopes |-> FALSE]
    /\ call = Idle
    /\ result = <<>>
    /\ ret = [kind |-> "none", ctx |-> 0]
    /\ ncalls = 0
    /\ log = <<>>
    /\ writeLog = <<>>
    /\ wrAtCancel = [s \in Scopes |-> [t \in Tags |-> 0]]
    /\ dlAfter = {}
    /\ \E n \in {0, IF network = "unixgram" THEN 1 ELSE SessionSenders} :
          session = NewRound(n)
    /\ life = NewMux

\* a sender writes a chunk, which waits at its connection
RoundWrite(c, tag, nl) ==
    /\ session.pc \in {"select", "read"}
    /\ session.nw < MaxRoundWrites
    /\ c \in 1..session.conns
    /\ network # "unixgram" => tag = SessionTagOrder[c]
    /\ session' = [session EXCEPT
                      !.nw = @ + 1,
                      !.queue[c] = Append(@, [Tag |-> tag,
                                              Data |-> ChunkData(session.nw + 1, nl)])]
    /\ UNCHANGED muxvars

\* waitFn has returned: the goroutine of ReadWhile stands at done <- true,
\* whether ReadUntil is still in its loop or has returned an error
RoundDoneSend ==
    /\ session.pc \in {"select", "read", "error"}
    /\ session.done = "open"
    /\ session' = [session EXCEPT !.done = "sending"]
    /\ UNCHANGED muxvars

\* select { case callerDone = <-done: default: }
RoundSelect ==
    /\ session.pc = "select"
    /\ Len(session.hist) < MaxRoundReads
    /\ session' = IF session.done = "sending"
                  THEN [session EXCEPT !.callerDone = TRUE, !.done = "sent",
                                       !.pc = "read"]
                  ELSE [session EXCEPT !.pc = "read"]
    /\ UNCHANGED muxvars

\* Read: recvidx moves on
NextIdx == IF session.recvidx < session.conns - 1 THEN session.recvidx + 1 ELSE 0

\* the end of ReadUntil's loop: repairTruncatedReads unless on unixgram
RoundBreak(m) ==
    IF network = "unixgram"
    THEN [m EXCEPT !.pc = "done", !.repaired = m.result]
    ELSE [m EXCEPT !.pc = "repair",
                   !.tagLastIndex = ScanLastIndex(m.result, Len(m.result) - 1, <<>>)]

\* a turn that counts a deadline as the data turns do not
RoundReadNoReset ==
    /\ session.pc = "read"
    /\ session.conns > 0
    /\ LET c == session.recvidx + 1
           m == [session EXCEPT
                    !.recvidx = NextIdx,
                    !.hist = Append(@, [conn |-> c,
                                        kind |-> IF session.queue[c] # <<>>
                                                 THEN "data" ELSE "deadline",
                                        done |-> session.callerDone])]
       IN session' =
             IF session.queue[c] # <<>>
             THEN [m EXCEPT !.queue[c] = Tail(@),
                            !.reads = Append(@, session.queue[c][1]),
                            !.result = Coalesce(@, session.queue[c][1]),
                            !.pc = "select"]
             ELSE IF ~session.callerDone
             THEN [m EXCEPT !.pc = "select"]
             ELSE IF session.lastRead + 1 >= session.conns
             THEN RoundBreak([m EXCEPT !.lastRead = @ + 1])
             ELSE [m EXCEPT !.lastRead = @ + 1, !.pc = "select"]
    /\ UNCHANGED muxvars

\* the rest of a turn: Read returns a chunk of the connection of recvidx, or
\* runs into its deadline; ReadUntil appends, or counts the deadline when
\* callerDone and leaves the loop at len(mux.recvconns)
RoundRead ==
    /\ session.pc = "read"
    /\ session.conns > 0
    /\ LET c == session.recvidx + 1
           m == [session EXCEPT
                    !.recvidx = NextIdx,
                    !.hist = Append(@, [conn |-> c,
                                        kind |-> IF session.queue[c] # <<>>
                                                 THEN "data" ELSE "deadline",
                                        done |-> session.callerDone])]
       IN session' =
             IF session.queue[c] # <<>>
             THEN [m EXCEPT !.queue[c] = Tail(@),
                            !.reads = Append(@, session.queue[c][1]),
                            !.result = Coalesce(@, session.queue[c][1]),
                            !.lastRead = 0,
                            !.pc = "select"]
             ELSE IF ~session.callerDone
             THEN [m EXCEPT !.pc = "select"]
             ELSE IF session.lastRead + 1 >= session.conns
             THEN RoundBreak([m EXCEPT !.lastRead = @ + 1])
             ELSE [m EXCEPT !.lastRead = @ + 1, !.pc = "select"]
    /\ UNCHANGED muxvars

\* Read returns another error than the deadline, MuxNoConnections when
\* there is no receive connection: ReadUntil returns nil and the error
RoundReadErr ==
    /\ session.pc = "read"
    /\ session' = [session EXCEPT
                      !.recvidx = IF session.conns = 0 THEN @ ELSE NextIdx,
                      !.hist = Append(@, [conn |-> IF session.conns = 0 THEN 0
                                                   ELSE session.recvidx + 1,
                                          kind |-> "error",
                                          done |-> session.callerDone]),
                      !.result = <<>>,
                      !.pc = "error"]
    /\ UNCHANGED muxvars

RoundNext ==
    \/ \E c \in 1..SessionSenders, tag \in SessionTags, nl \in BOOLEAN :
          RoundWrite(c, tag, nl)
    \/ RoundDoneSend
    \/ RoundSelect
    \/ RoundRead
    \/ RoundReadErr
    \/ RepairStep
    \/ RepairReturn

RoundSpec == RoundInit /\ [][RoundNext]_vars

\* the last n Reads of the session
LastReads(n) ==
    {session.hist[k] : k \in (Len(session.hist) - n + 1)..Len(session.hist)}

\* C30: ReadUntil of the round-robin Mux leaves its loop only when done was
\* received and, after that, as many Reads in a row as there are receive
\* connections ran into the deadline, with no data between them: every
\* connection was then found empty once after done.
C30_ReadUntilDrainsAfterDone ==
    session.pc \in {"repair", "done", "panic"} =>
        /\ session.callerDone
        /\ Len(session.hist) >= session.conns
        /\ \A h \in LastReads(session.conns) : h.kind = "deadline" /\ h.done
        /\ {h.conn : h \in LastReads(session.conns)} = 1..session.conns

\* a stream session that ended although data was read after done: the
\* count began again
C30_Witness ==
    /\ session.pc = "done"
    /\ network = "unix"
    /\ \E k \in 1..Len(session.hist) :
          /\ session.hist[k].kind = "data" /\ session.hist[k].done
          /\ \E j \in 1..(k - 1) :
                session.hist[j].kind = "deadline" /\ session.hist[j].done

\* C39: the goroutine of ReadWhile always delivers its send on done: while
\* it stands at done <- true, ReadUntil is in its loop, whose select
\* receives from done; ReadUntil has not returned an error, after which
\* nothing receives from the channel.
C39_DoneSendIsReceived ==
    session.done = "sending" => session.pc \in {"select", "read"}

\* the bytes of tag in a sequence of tagged chunks, joined in order
RECURSIVE TagBytes(_, _)
TagBytes(tds, tag) ==
    IF tds = <<>> THEN <<>>
    ELSE (IF tds[1].Tag = tag THEN tds[1].Data ELSE <<>>) \o TagBytes(Tail(tds), tag)

SessionOver == session.pc \in {"done", "panic"}

\* C9: for every chunk sequence and every tag, the payloads of the tag in
\* what repairTruncatedReads returns, joined in order, are the payloads of
\* the tag in what it was given, joined in order.
C9_RepairPreservesTagBytes ==
    (SessionOver /\ network # "unixgram") =>
        /\ session.pc = "done"
        /\ \A tag \in SessionTags :
              TagBytes(session.repaired, tag) = TagBytes(session.result, tag)

\* C10: two fragments of tag a without a line feed, then a chunk of b, then
\* a chunk of a: the session result is the three entries (a, the fragments),
\* (b, ..), (a, ..) in that order.
C10_TruncatedReadYieldsThreeEntries ==
    (/\ SessionOver
     /\ network # "unixgram"
     /\ Len(session.reads) = 4
     /\ [k \in 1..4 |-> session.reads[k].Tag] = <<"a", "a", "b", "a">>
     /\ Last(session.reads[1].Data) # Newline
     /\ Last(session.reads[2].Data) # Newline)
    => /\ session.pc = "done"
       /\ session.repaired =
             <<[Tag |-> "a", Data |-> session.reads[1].Data \o session.reads[2].Data],
               session.reads[3], session.reads[4]>>

\* the entries of tds with the given tag, and the others, in order
OfTag(tds, tag) == SelectSeq(tds, LAMBDA td : td.Tag = tag)
NotOfTag(tds, tag) == SelectSeq(tds, LAMBDA td : td.Tag # tag)

\* the chunk at index i (counted from 0) is the last one of its tag
IsLastOfTag(tds, i) == \A j \in (i + 2)..Len(tds) : tds[j].Tag # tds[i + 1].Tag

\* a turn of the second loop of repairTruncatedReads is taken
RepairTurn == session.pc = "repair" /\ session.i < Len(session.result) /\ session' # session

\* C23: walking the chunks forward, the reassembler emits an entry, the
\* pending fragments of the tag followed by the payload, and clears the
\* pending fragments of that tag, exactly when the chunk is the last of its
\* tag or its payload ends in a line feed while fragments of the tag are
\* pending; otherwise it appends the chunk to the pending ones and emits
\* nothing.
C23_FlushRule ==
    [][RepairTurn =>
          LET i == session.i
              td == session.result[i + 1]
              pending == OfTag(session.bufferedData, td.Tag)
              flush == \/ IsLastOfTag(session.result, i)
                       \/ (Last(td.Data) = Newline /\ pending # <<>>)
          IN /\ session'.pc = "repair"
             /\ IF flush
                THEN /\ session'.repaired =
                           Append(session.repaired,
                                  [Tag |-> td.Tag,
                                   Data |-> TagBytes(pending, td.Tag) \o td.Data])
                     /\ session'.bufferedData = NotOfTag(session.bufferedData, td.Tag)
                ELSE /\ session'.repaired = session.repaired
                     /\ session'.bufferedData = Append(session.bufferedData, td)]_vars

\* C34: repairTruncatedReads ends without a runtime fault and with nothing
\* left in bufferedData, whatever the coalesced chunks, a tag with several
\* pending fragments included.
C34_RepairEndsClean ==
    (SessionOver /\ network # "unixgram") =>
        /\ session.pc # "panic"
        /\ session.bufferedData = <<>>

\* C40: the lines scanLines returns hold, for every tag and whatever the
\* number of tags in the session, the bytes ReadUntil returned for that tag,
\* in their order: nothing stays in the line buffer of a tag.
C40_LinesKeepEveryByte ==
    session.pc = "done" =>
        \A tag \in SessionTags :
            TagBytes(session.lines, tag) = TagBytes(session.reads, tag)

\* the sessions of at most two tags
FewTagsKeepEveryByte ==
    (session.pc = "done"
     /\ Cardinality({session.reads[k].Tag : k \in 1..Len(session.reads)}) <= 2) =>
        \A tag \in SessionTags :
            TagBytes(session.lines, tag) = TagBytes(session.reads, tag)

\* every chunk ends in a line feed
LineComplete(tds) == \A k \in 1..Len(tds) : Last(tds[k].Data) = Newline

\* C38: when every coalesced chunk ends in a line feed, repairTruncatedReads
\* returns the chunks it was given: the same entries, order and payloads.
C38_IdentityOnCompleteLines ==
    (SessionOver /\ network # "unixgram" /\ LineComplete(session.result)) =>
        /\ session.pc = "done"
        /\ session.repaired = session.result

\* a stream session of complete lines in which a tag comes again after
\* another, returned by repairTruncatedReads
C38_Witness ==
    /\ session.pc = "done"
    /\ network # "unixgram"
    /\ LineComplete(session.result)
    /\ Len(session.result) >= 4
    /\ session.result[3].Tag = session.result[1].Tag
    /\ session.repaired = session.result

\* the chunks read, each appended to the entry before it when of its tag
RECURSIVE CoalesceAll(_)
CoalesceAll(tds) ==
    IF tds = <<>> THEN <<>>
    ELSE Coalesce(CoalesceAll(SubSeq(tds, 1, Len(tds) - 1)), Last(tds))

\* C25: on a datagram network ReadUntil ends without the reassembly pass:
\* what it returns is the sequence of chunks read, coalesced, and nothing
\* else.
C25_DatagramSkipsRepair ==
    (network = "unixgram" /\ session.pc # "read") =>
        /\ session.pc = "done"
        /\ session.repaired = CoalesceAll(session.reads)

\* a datagram session returned a fragment without line feed as an entry of
\* its own, followed by another tag and then by its tag again
C25_Witness ==
    /\ network = "unixgram"
    /\ session.pc = "done"
    /\ Len(session.repaired) >= 3
    /\ Last(session.repaired[1].Data) # Newline
    /\ session.repaired[2].Tag # session.repaired[1].Tag
    /\ session.repaired[3].Tag = session.repaired[1].Tag

\* the bytes part occur in whole, in order and without a gap
Contains(whole, part) ==
    \E o \in 0..(Len(whole) - Len(part)) : SubSeq(whole, o + 1, o + Len(part)) = part

\* the index (counted from 1) of the next chunk of the tag of tds[i]
NextOfTag(tds, i) == CHOOSE j \in (i + 1)..Len(tds) :
                        /\ tds[j].Tag = tds[i].Tag
                        /\ \A k \in (i + 1)..(j - 1) : tds[k].Tag # tds[i].Tag

\* on a stream network every emitted entry that another entry of its tag
\* follows ends in a line feed
NonFinalEntriesEndLines ==
    network # "unixgram" =>
    \A k \in 1..Len(session.repaired) :
        (\E k2 \in (k + 1)..Len(session.repaired) :
            session.repaired[k2].Tag = session.repaired[k].Tag)
        => Last(session.repaired[k].Data) = Newline

\* C24: every entry the reassembler emits, but the last one of its tag,
\* ends in a line feed: a fragment that does not end a line is not emitted
\* on its own, it is joined with the next fragment of its tag and emitted
\* with it.
C24_FragmentsJoinedToLines ==
    (SessionOver /\ network # "unixgram") =>
        /\ session.pc = "done"
        /\ NonFinalEntriesEndLines
        /\ \A i \in 1..Len(session.result) :
              (/\ Last(session.result[i].Data) # Newline
               /\ ~IsLastOfTag(session.result, i - 1))
              => \E k \in 1..Len(session.repaired) :
                    /\ session.repaired[k].Tag = session.result[i].Tag
                    /\ Contains(session.repaired[k].Data,
                                session.result[i].Data
                                \o session.result[NextOfTag(session.result, i)].Data)

----------------------------------------------------------------------------
\* The Go scheduler runs every goroutine that can run: the caller inside
\* Read, and each read goroutine. Nothing makes the program's user call Tag,
\* Read or a cancel function, nor a writer write.

CallerNext ==
    \/ ReadAgain
    \/ DirectReadData
    \/ DirectExpire
    \/ DirectCheckCtx
    \/ ReadRecv
    \/ ReadCtxDone

WorkerNext(c, k) ==
    /\ c \in Conns
    /\ \/ WorkerReadData(c, k)
       \/ WorkerExpire(c, k)
       \/ WorkerCheckCtx(c, k)
       \/ WorkerSend(c, k)
       \/ WorkerUnlock(c, k)

Fairness ==
    /\ WF_vars(CallerNext)
    /\ \A c \in 1..Len(TagOrder), k \in 1..MaxInFlight : WF_vars(WorkerNext(c, k))

FairSpec == Init /\ [][Next]_vars /\ Fairness

----------------------------------------------------------------------------
\* C5: under fair scheduling, a call of Read or ReadUntil whose context is
\* done eventually returns, whatever calls were made on the mux before.
C5_CancelledReadReturns ==
    \A s \in Scopes :
        (call.pc # "idle" /\ call.ctx = s /\ cancelled[s]) ~> (call.pc = "idle")

====
